---- MODULE Spec2Model ----
(***************************************************************************)
(* Interactive Telegram login of mautrix-telegram                          *)
(* (mautrix_telegram/commands/telegram/auth.py).                           *)
(*                                                                         *)
(* Every command invocation is an asyncio task.  A task runs atomically     *)
(* from one await that touches shared state to the next, so two            *)
(* invocations interleave exactly at those points.  Shared state: each     *)
(* user's command_status (the continuation slot), each user's tgid (the    *)
(* binding) and the post_login tasks handed to background_task.create.     *)
(* Calls to the provider and to the room are recorded, in order, in the    *)
(* invocation's `calls`.                                                   *)
(***************************************************************************)
EXTENDS Integers, Sequences, FiniteSets

\* ------------------------------------------------------------------ bounds
MaxCmds == 2           \* invocations in a behaviour of Spec (two may overlap)
MaxSeqCmds == 4        \* invocations in a behaviour of SpecSeq (one at a time)

\* -------------------------------------------------------------- the world
None == "None"
Accounts == {"alice", "bob"}           \* Matrix users (u.User), by mxid
Admins == {"alice"}                    \* users with is_admin
Remotes == {"tg42"}                    \* Telegram users (telethon User)
Tasks == {1, 2}                        \* the invocations that may overlap

\* user.username and user.phone of a Telegram user
Username(user) == IF user = "tg42" THEN "handle42" ELSE ""
Phone(user) == IF user = "tg42" THEN "12025550123" ELSE "15550007"

\* str.find(":") of the argument strings the model submits
FindColon(arg) ==
    CASE arg = "123:abc" -> 3
      [] arg = ":abc" -> 0
      [] OTHER -> -1

VARIABLES
    task,               \* task[t]: one command invocation (evt and its locals)
    command_status,     \* command_status[a]: evt.sender.command_status
    tgid,               \* tgid[a]: the Telegram user bound to a, or None
    background_tasks,   \* post_login coroutines created and not yet run
    allow_matrix_login, \* config bridge.allow_matrix_login
    qrcode,             \* the qrcode / QRLogin imports succeeded
    budget,             \* invocations the behaviour may still start
    last,               \* the invocation that returned in the last step, if any
    flow                \* observer of the login -> phone -> code -> password walk

vars == <<task, command_status, tgid, background_tasks, allow_matrix_login,
          qrcode, budget, last, flow>>

\* ---------------------------------------------------------- continuation
NoStatus == [next |-> None, action |-> None, login_as |-> None]
Status(next, action, login_as) ==
    [next |-> next, action |-> action, login_as |-> login_as]

\* --------------------------------------------------------------- a task
IdleTask ==
    [pc |-> "idle", cmd |-> None, nargs |-> 0, invoker |-> None,
     sender |-> None,
     login_as |-> None, client |-> None, user |-> None,
     existing_user |-> None, retries |-> 0, qr_event_id |-> None,
     outcome |-> None, calls |-> <<>>]

Call(op, arg) == [op |-> op, arg |-> arg]
Did(r, op, arg) == [r EXCEPT !.calls = Append(@, Call(op, arg))]
Reply(r, text) == Did(r, "reply", text)
Finished(r) == [r EXCEPT !.pc = "done"]
Active(t) == task[t].pc # "idle"

Replies(r) == SelectSeq(r.calls, LAMBDA c : c.op = "reply")
LastReply(r) ==
    IF Replies(r) = <<>> THEN None ELSE Replies(r)[Len(Replies(r))].arg
CountOp(r, op) == Len(SelectSeq(r.calls, LAMBDA c : c.op = op))
HasCall(r, op, arg) == \E i \in 1..Len(r.calls) : r.calls[i] = Call(op, arg)

Start(tasks, cmds) ==
    /\ task = [t \in tasks |-> IdleTask]
    /\ command_status = [a \in Accounts |-> NoStatus]
    /\ tgid = [a \in Accounts |-> None]
    /\ background_tasks = {}
    /\ allow_matrix_login \in BOOLEAN
    /\ qrcode \in BOOLEAN
    /\ budget = cmds
    /\ last = IdleTask
    /\ flow = [a \in Accounts |-> "off"]

\* up to MaxCmds invocations, two of which may be in flight together
Init == Start(Tasks, MaxCmds)
\* up to MaxSeqCmds invocations, one after the other
InitSeq == Start({1}, MaxSeqCmds)

\* ------------------------------------------- code of user.py, from the spec
\* u.User.get_by_tgid: the users bound to a Telegram user (the lookup returns
\* one of them, or None when there is none)
BoundTo(user) == {a \in Accounts : tgid[a] = user}
\* User.is_logged_in
is_logged_in(a) == tgid[a] # None
\* User.log_out: tears the binding of a down
log_out(tg, a) == [tg EXCEPT ![a] = None]
\* User.post_login: records the binding a <-> user
post_login(tg, a, user) == [tg EXCEPT ![a] = user]

\* name = f"@{user.username}" if user.username else f"+{user.phone}"
\* variant: the phone number is shown even when the remote has a handle
DisplayName_phone(user) == "+" \o Phone(user)
DisplayName(user) ==
    IF Username(user) # "" THEN "@" \o Username(user) ELSE "+" \o Phone(user)
\* User.human_tg_id
human_tg_id(a) == DisplayName(tgid[a])

\* --------------------------------------------------------------- observer
\* flow[a] follows account a through login -> phone number (code sent) ->
\* code (two-factor required) -> password (remote identity returned), as long
\* as a runs one command at a time and every message is delivered.
Stages == {"login", "phone", "code", "password"}
Reached(stage) == stage \o "_ok"

FlowOnInvoke(a, c, args) ==
    IF \E s \in DOMAIN task : Active(s) /\ task[s].invoker = a THEN "off"
    ELSE IF c = "login" /\ args = <<>> THEN "login"
    ELSE IF /\ flow[a] = "login_ok" /\ c = "enter_phone_or_token"
            /\ args # <<>> /\ ~(FindColon(args[1]) > 0) THEN "phone"
    ELSE IF flow[a] = "phone_ok" /\ c = "enter_code" /\ args # <<>> THEN "code"
    ELSE IF flow[a] = "code_ok" /\ c = "enter_password" /\ args # <<>>
         THEN "password"
    ELSE "off"

\* the inputs of the walk: what the configuration and the provider answered
Walks(r) ==
    CASE r.cmd = "login" -> r.outcome = "not_logged_in" /\ allow_matrix_login
      [] r.cmd = "enter_phone_or_token" -> r.outcome = "sent"
      [] r.cmd = "enter_code" -> r.outcome = "SessionPasswordNeededError"
      [] r.cmd = "enter_password" -> r.outcome = "user"
      [] OTHER -> FALSE

ObserveFrom(f, r) ==
    IF r.pc = "done" /\ f[r.invoker] \in Stages
    THEN [f EXCEPT ![r.invoker] = IF Walks(r) THEN Reached(@) ELSE "off"]
    ELSE f

Config == <<allow_matrix_login, qrcode>>

\* ------------------------------------------------------ command dispatch
Commands == {"login", "login_qr", "enter_phone_or_token", "enter_code",
             "enter_password", "logout"}

ArgsOf(c) ==
    CASE c = "login" -> {<<>>, <<"notmxid">>} \cup {<<a>> : a \in Accounts}
      [] c = "login_qr" -> {<<>>} \cup {<<a>> : a \in Accounts}
      [] c = "enter_phone_or_token" ->
            {<<>>, <<"12025550123">>, <<"123:abc">>, <<":abc">>}
      [] c = "enter_code" -> {<<>>, <<"54321">>}
      [] c = "enter_password" -> {<<>>, <<"correct-pw">>}
      [] OTHER -> {<<>>}

\* the evt of a message of user a that reaches handler c
Evt(a, c) ==
    [IdleTask EXCEPT !.pc = c, !.cmd = c, !.invoker = a, !.sender = a]

\* task t is left as r; an invocation that returned is shown in `last` for
\* one state and its task is free again
Settle(t, r) ==
    IF r.pc = "done"
    THEN task' = [task EXCEPT ![t] = IdleTask] /\ last' = r
    ELSE task' = [task EXCEPT ![t] = r] /\ last' = IdleTask

\* A message of user a reaches handler c, by name or through a's
\* command_status["next"]; the invocation takes the first free task and runs
\* to its first await on shared state, which leaves it as r (with len(evt.args)).
Free(t) ==
    /\ budget > 0
    /\ t \in DOMAIN task
    /\ ~Active(t)
    /\ \A s \in DOMAIN task : s < t => Active(s)

Enters(t, a, c, args, r) ==
    /\ args \in ArgsOf(c)
    /\ budget' = budget - 1
    /\ Settle(t, [r EXCEPT !.nargs = Len(args)])
    /\ flow' = ObserveFrom([flow EXCEPT ![a] = FlowOnInvoke(a, c, args)], r)

\* a later step of task t, which leaves it as r
Becomes(t, r) ==
    /\ Settle(t, r)
    /\ flow' = ObserveFrom(flow, r)
    /\ budget' = budget

\* ------------------------------------------------------------------ login
\* public_enabled: config appservice.public.enabled, as this invocation reads it
LoginReply(override_sender, public_enabled) ==
    IF public_enabled
    THEN IF override_sender THEN "Click here to log in as override"
         ELSE IF allow_matrix_login
              THEN "Click here to log in. Alternatively, send your phone number (or bot auth token) here to log in."
              ELSE "Click here to log in."
    ELSE IF allow_matrix_login
         THEN IF override_sender
              THEN "Logging in as another user inside Matrix is not currently possible."
              ELSE "Please send your phone number (or bot auth token) here to start the login process."
         ELSE "This bridge instance has been configured to not allow logging in."

LoginStatus(override_sender, cur) ==
    IF allow_matrix_login /\ ~override_sender
    THEN Status("enter_phone_or_token", "Login", None)
    ELSE cur

login(t, a, args, public_enabled) ==
    LET r == Evt(a, "login")
        override == Len(args) > 0 /\ r.sender \in Admins
    IN  /\ Free(t)
        /\ IF override /\ args[1] \notin Accounts
           THEN /\ Enters(t, a, "login", args, Finished(Reply(r, "Usage: login [override user ID]")))
                /\ UNCHANGED command_status
           ELSE LET sender == IF override THEN args[1] ELSE r.sender
                    r1 == IF override
                          THEN Reply([r EXCEPT !.sender = sender],
                                     "Admin override: logging in as " \o sender
                                        \o " instead of " \o r.sender)
                          ELSE r
                IN  IF is_logged_in(sender)
                    THEN /\ Enters(t, a, "login", args, Finished(Reply(
                                [r1 EXCEPT !.outcome = "logged_in"],
                                "You are already logged in as "
                                    \o human_tg_id(sender) \o ".")))
                         /\ UNCHANGED command_status
                    ELSE /\ command_status' =
                                [command_status EXCEPT ![sender] =
                                    LoginStatus(override, @)]
                         /\ Enters(t, a, "login", args, Finished(Reply(
                                [r1 EXCEPT !.outcome = "not_logged_in"],
                                LoginReply(override, public_enabled))))
        /\ UNCHANGED <<tgid, background_tasks, Config>>

\* ----------------------------------------------------------------- logout
logout(t, a, args) ==
    LET r == Evt(a, "logout")
    IN  /\ Free(t)
        /\ IF ~is_logged_in(r.sender)
           THEN /\ Enters(t, a, "logout", args, Finished(Reply(r, "You're not logged in")))
                /\ UNCHANGED tgid
           ELSE \E ok \in BOOLEAN :
                /\ tgid' = log_out(tgid, r.sender)
                /\ Enters(t, a, "logout", args, Finished(Reply(Did(r, "log_out", r.sender),
                        IF ok THEN "Logged out successfully."
                        ELSE "Failed to log out.")))
        /\ UNCHANGED <<command_status, background_tasks, Config>>

\* ---------------------------------------------------- the background task
\* a post_login coroutine created by _finish_sign_in runs
PostLogin(a, user) ==
    /\ <<a, user>> \in background_tasks
    /\ background_tasks' = background_tasks \ {<<a, user>>}
    /\ tgid' = post_login(tgid, a, user)
    /\ last' = IdleTask
    /\ UNCHANGED <<task, command_status, Config, budget, flow>>

\* --------------------------------------------------------------- login_qr
Retries_offbyone == 4 - 1
Retries == 4

\* "login_as": login_as if login_as != evt.sender else None
\* variant: the acting identity is recorded even when it is the invoker
QrLoginAsEntry_always(login_as, sender) == login_as
QrLoginAsEntry(login_as, sender) == IF login_as # sender THEN login_as ELSE None

PasswordStatus(login_as) ==
    Status("enter_password", "Login (password entry)", login_as)

TwoFactorText ==
    "Your account has two-factor authentication. Please send your password here."

\* variant: login_qr without the test of the qrcode / QRLogin imports
login_qr_unchecked(t, a, args) ==
    LET r == Evt(a, "login_qr")
        login_as == IF Len(args) > 0 /\ r.sender \in Admins
                    THEN args[1] ELSE r.sender
    IN  /\ Free(t)
        /\ IF is_logged_in(login_as)
           THEN Enters(t, a, "login_qr", args, Finished(Reply([r EXCEPT !.outcome = "logged_in"],
                    "You are already logged in as " \o human_tg_id(login_as) \o ".")))
           ELSE Enters(t, a, "login_qr", args, [r EXCEPT !.login_as = login_as, !.client = login_as,
                                     !.retries = Retries, !.pc = "qr_loop"])
        /\ UNCHANGED <<command_status, tgid, background_tasks, Config>>

\* variant: login_qr honours the override of any invoker
login_qr_anyone(t, a, args) ==
    LET r == Evt(a, "login_qr")
        login_as == IF Len(args) > 0 THEN args[1] ELSE r.sender
    IN  /\ Free(t)
        /\ IF ~qrcode
           THEN Enters(t, a, "login_qr", args, Finished(Reply(r,
                    "This bridge instance does not support logging in with a QR code.")))
           ELSE IF is_logged_in(login_as)
           THEN Enters(t, a, "login_qr", args, Finished(Reply([r EXCEPT !.outcome = "logged_in"],
                    "You are already logged in as " \o human_tg_id(login_as) \o ".")))
           ELSE Enters(t, a, "login_qr", args, [r EXCEPT !.login_as = login_as, !.client = login_as,
                                     !.retries = Retries, !.pc = "qr_loop"])
        /\ UNCHANGED <<command_status, tgid, background_tasks, Config>>

login_qr(t, a, args) ==
    LET r == Evt(a, "login_qr")
        login_as == IF Len(args) > 0 /\ r.sender \in Admins
                    THEN args[1] ELSE r.sender
    IN  /\ Free(t)
        /\ IF ~qrcode
           THEN Enters(t, a, "login_qr", args, Finished(Reply(r,
                    "This bridge instance does not support logging in with a QR code.")))
           ELSE IF is_logged_in(login_as)
           THEN Enters(t, a, "login_qr", args, Finished(Reply([r EXCEPT !.outcome = "logged_in"],
                    "You are already logged in as " \o human_tg_id(login_as) \o ".")))
           ELSE Enters(t, a, "login_qr", args, [r EXCEPT !.login_as = login_as, !.client = login_as,
                                     !.retries = Retries, !.pc = "qr_loop"])
        /\ UNCHANGED <<command_status, tgid, background_tasks, Config>>

\* upload_qr: the first challenge is a new message, later ones edit it
\* variant: every challenge is published as a new message
upload_qr_fresh(r) == [Did(r, "send", "qr") EXCEPT !.qr_event_id = "qr"]
upload_qr(r) ==
    IF r.qr_event_id # None
    THEN Did(r, "edit", "qr")
    ELSE [Did(r, "send", "qr") EXCEPT !.qr_event_id = "qr"]

\* the head of the while loop: recreate and publish, or the loop's else branch
\* variant: the loop's else branch also schedules the post-login task
qr_loop_schedules(t) ==
    LET r == task[t]
    IN  /\ t \in DOMAIN task
        /\ r.pc = "qr_loop"
        /\ IF r.retries > 0
           THEN /\ Becomes(t, [upload_qr(Did(r, "recreate", "qr")) EXCEPT !.pc = "qr_wait"])
                /\ UNCHANGED background_tasks
           ELSE /\ Becomes(t, Finished(Did(r, "edit", "Login timed out")))
                /\ background_tasks' = background_tasks \cup {<<r.login_as, "tg42">>}
        /\ UNCHANGED <<command_status, tgid, Config>>

qr_loop(t) ==
    LET r == task[t]
    IN  /\ t \in DOMAIN task
        /\ r.pc = "qr_loop"
        /\ IF r.retries > 0
           THEN Becomes(t, [upload_qr(Did(r, "recreate", "qr")) EXCEPT !.pc = "qr_wait"])
           ELSE Becomes(t, Finished(Did(r, "edit", "Login timed out")))
        /\ UNCHANGED <<command_status, tgid, background_tasks, Config>>

QrOutcomes == Remotes \cup {"TimeoutError", "SessionPasswordNeededError"}

\* qr_login.wait() returns or raises
qr_wait(t, out) ==
    LET r == task[t]
    IN  /\ t \in DOMAIN task
        /\ r.pc = "qr_wait"
        /\ out \in QrOutcomes
        /\ CASE out \in Remotes ->
                  /\ Becomes(t, [r EXCEPT !.user = out, !.outcome = "user",
                                          !.pc = "finish"])
                  /\ UNCHANGED command_status
             [] out = "TimeoutError" ->
                  /\ Becomes(t, [r EXCEPT !.retries = @ - 1, !.outcome = out,
                                          !.pc = "qr_redact"])
                  /\ UNCHANGED command_status
             [] OTHER ->
                  /\ command_status' = [command_status EXCEPT ![r.sender] =
                        PasswordStatus(QrLoginAsEntry(r.login_as, r.sender))]
                  /\ Becomes(t, Finished(Reply([r EXCEPT !.outcome = out],
                                               TwoFactorText)))
        /\ UNCHANGED <<tgid, background_tasks, Config>>

\* the redaction that follows the try statement inside the loop; whether it
\* succeeds or raises, the handler goes on to the loop's head
qr_redact(t) ==
    LET r == task[t]
    IN  /\ t \in DOMAIN task
        /\ r.pc = "qr_redact"
        /\ Becomes(t, [Did(r, "redact", "qr") EXCEPT !.pc = "qr_loop"])
        /\ UNCHANGED <<command_status, tgid, background_tasks, Config>>

\* ------------------------------------------------- the credential sequence
DisabledText == "This bridge instance does not allow in-Matrix login."

enter_phone_or_token(t, a, args) ==
    LET r == Evt(a, "enter_phone_or_token")
    IN  /\ Free(t)
        /\ IF Len(args) = 0
           THEN Enters(t, a, "enter_phone_or_token", args, Finished(Reply(r, "Usage: enter-phone-or-token <phone-or-token>")))
           ELSE IF ~allow_matrix_login
           THEN Enters(t, a, "enter_phone_or_token", args, Finished(Reply(r, DisabledText)))
           ELSE IF FindColon(args[1]) > 0
           THEN Enters(t, a, "enter_phone_or_token", args, [r EXCEPT !.login_as = None, !.pc = "sign_in"])
           ELSE Enters(t, a, "enter_phone_or_token", args, [r EXCEPT !.pc = "request_code"])
        /\ UNCHANGED <<command_status, tgid, background_tasks, Config>>

RequestErrors ==
    {"PhoneNumberAppSignupForbiddenError", "PhoneNumberFloodError",
     "FloodWaitError", "PhoneNumberBannedError", "PhoneNumberUnoccupiedError",
     "PhoneNumberInvalidError", "Exception"}

RequestReply(out) ==
    CASE out = "sent" -> "Login code sent. Please send the code here."
      [] out = "PhoneNumberAppSignupForbiddenError" ->
            "Your phone number does not allow 3rd party apps to sign in."
      [] out = "PhoneNumberFloodError" ->
            "Your phone number has been temporarily blocked for flooding. The ban is usually applied for around a day."
      [] out = "FloodWaitError" ->
            "Your phone number has been temporarily blocked for flooding. Please wait before trying again."
      [] out = "PhoneNumberBannedError" ->
            "Your phone number has been banned from Telegram."
      [] out = "PhoneNumberUnoccupiedError" ->
            "That phone number has not been registered."
      [] out = "PhoneNumberInvalidError" -> "That phone number is not valid."
      [] OTHER -> "Unhandled exception while requesting code. Check console for more details."

\* finally: evt.sender.command_status = next_status if ok else None
\* variant: the finally block installs next_status whether or not ok was set
RequestCodeStatus_always(ok, next_status) == next_status
RequestCodeStatus(ok, next_status) == IF ok THEN next_status ELSE NoStatus

\* _request_code: ensure_started and client.sign_in(phone_number) answer
_request_code(t, out) ==
    LET r == task[t]
    IN  /\ t \in DOMAIN task
        /\ r.pc = "request_code"
        /\ out \in {"sent"} \cup RequestErrors
        /\ command_status' = [command_status EXCEPT ![r.sender] =
                RequestCodeStatus(out = "sent", Status("enter_code", "Login", None))]
        /\ Becomes(t, Finished(Reply(
                [Did(r, "sign_in", "phone") EXCEPT !.outcome = out],
                RequestReply(out))))
        /\ UNCHANGED <<tgid, background_tasks, Config>>

\* variant: enter_code without the allow_matrix_login test
enter_code_noflag(t, a, args) ==
    LET r == Evt(a, "enter_code")
    IN  /\ Free(t)
        /\ IF Len(args) = 0
           THEN Enters(t, a, "enter_code", args, Finished(Reply(r, "Usage: enter-code <code>")))
           ELSE Enters(t, a, "enter_code", args, [r EXCEPT !.login_as = None, !.pc = "sign_in"])
        /\ UNCHANGED <<command_status, tgid, background_tasks, Config>>

\* variant: enter_code with the allow_matrix_login test ahead of the usage test
enter_code_flagfirst(t, a, args) ==
    LET r == Evt(a, "enter_code")
    IN  /\ Free(t)
        /\ IF ~allow_matrix_login
           THEN Enters(t, a, "enter_code", args, Finished(Reply(r, DisabledText)))
           ELSE IF Len(args) = 0
           THEN Enters(t, a, "enter_code", args, Finished(Reply(r, "Usage: enter-code <code>")))
           ELSE Enters(t, a, "enter_code", args, [r EXCEPT !.login_as = None, !.pc = "sign_in"])
        /\ UNCHANGED <<command_status, tgid, background_tasks, Config>>

enter_code(t, a, args) ==
    LET r == Evt(a, "enter_code")
    IN  /\ Free(t)
        /\ IF Len(args) = 0
           THEN Enters(t, a, "enter_code", args, Finished(Reply(r, "Usage: enter-code <code>")))
           ELSE IF ~allow_matrix_login
           THEN Enters(t, a, "enter_code", args, Finished(Reply(r, DisabledText)))
           ELSE Enters(t, a, "enter_code", args, [r EXCEPT !.login_as = None, !.pc = "sign_in"])
        /\ UNCHANGED <<command_status, tgid, background_tasks, Config>>

\* the except clauses of the handler that called _sign_in
CallerReply(cmd, out) ==
    CASE cmd = "enter_phone_or_token" ->
            "Unhandled exception while sending auth token. Check console for more details."
      [] cmd = "enter_code" ->
            "Unhandled exception while sending code. Check console for more details."
      [] cmd = "enter_password" /\ out = "AccessTokenInvalidError" ->
            "That bot token is not valid."
      [] cmd = "enter_password" /\ out = "AccessTokenExpiredError" ->
            "That bot token has expired."
      [] OTHER ->
            "Unhandled exception while sending password. Check console for more details."

\* enter_password: evt.redact() either redacts the password message or raises
\* (and then the handler is left at once); command_status.get("login_as") is
\* read after it, inside the try statement
enter_password(t, a, args, redacted) ==
    LET r == Evt(a, "enter_password")
    IN  /\ Free(t)
        /\ redacted \in BOOLEAN
        /\ IF Len(args) = 0
           THEN Enters(t, a, "enter_password", args, Finished(Reply(r, "Usage: enter-password <password>")))
           ELSE IF ~allow_matrix_login
           THEN Enters(t, a, "enter_password", args, Finished(Reply(r, DisabledText)))
           ELSE IF ~redacted
           THEN Enters(t, a, "enter_password", args, Finished([Did(r, "redact_failed", "password")
                                        EXCEPT !.outcome = "redact_failed"]))
           ELSE IF command_status[r.sender] = NoStatus
           THEN Enters(t, a, "enter_password", args, Finished(Reply(
                    [Did(r, "redact", "password") EXCEPT !.outcome = "AttributeError"],
                    CallerReply(r.cmd, "AttributeError"))))
           ELSE Enters(t, a, "enter_password", args, [Did(r, "redact", "password") EXCEPT
                                !.login_as = command_status[r.sender].login_as,
                                !.pc = "sign_in"])
        /\ UNCHANGED <<command_status, tgid, background_tasks, Config>>

\* ---------------------------------------------------------------- _sign_in
\* login_as = login_as or evt.sender
LoginAsOrSender(login_as, sender) == IF login_as # None THEN login_as ELSE sender

\* the login_as that _sign_in hands to _finish_sign_in(evt, user): none
SignInHandsOn(login_as) == None

\* what client.sign_in(**sign_in_info) answers to a token, a code, a password
SignInOutcomes(cmd) ==
    Remotes \cup {"Exception"} \cup
    CASE cmd = "enter_phone_or_token" ->
            {"AccessTokenInvalidError", "AccessTokenExpiredError"}
      [] cmd = "enter_code" ->
            {"PhoneCodeExpiredError", "PhoneCodeInvalidError",
             "SessionPasswordNeededError"}
      [] OTHER -> {"PasswordHashInvalidError"}

\* the except clauses of _sign_in; what they do not catch reaches the caller
SignInReply(cmd, out) ==
    CASE out = "PhoneCodeExpiredError" -> "Phone code expired. Try again with $cmdprefix+sp login."
      [] out = "PhoneCodeInvalidError" -> "Invalid phone code."
      [] out = "PasswordHashInvalidError" -> "Incorrect password."
      [] out = "SessionPasswordNeededError" -> TwoFactorText
      [] OTHER -> CallerReply(cmd, out)

\* variant: a wrong password also drops the continuation
SignInStatus_clears(out, cur) ==
    CASE out = "SessionPasswordNeededError" -> PasswordStatus(None)
      [] out = "PasswordHashInvalidError" -> NoStatus
      [] OTHER -> cur
SignInStatus(out, cur) ==
    IF out = "SessionPasswordNeededError" THEN PasswordStatus(None) ELSE cur

_sign_in(t, out) ==
    LET r == task[t]
        acting == LoginAsOrSender(r.login_as, r.sender)
        r1 == [Did(r, "sign_in", acting) EXCEPT !.client = acting]
    IN  /\ t \in DOMAIN task
        /\ r.pc = "sign_in"
        /\ out \in SignInOutcomes(r.cmd)
        /\ IF out \in Remotes
           THEN /\ Becomes(t, [r1 EXCEPT !.user = out, !.outcome = "user",
                                         !.login_as = SignInHandsOn(acting),
                                         !.pc = "finish"])
                /\ UNCHANGED command_status
           ELSE /\ command_status' = [command_status EXCEPT ![r.sender] =
                                         SignInStatus(out, @)]
                /\ Becomes(t, Finished(Reply([r1 EXCEPT !.outcome = out],
                                             SignInReply(r.cmd, out))))
        /\ UNCHANGED <<tgid, background_tasks, Config>>

\* --------------------------------------------------------- _finish_sign_in
EvictionNotice(existing_user) ==
    "[" \o existing_user \o "] was logged out from the account."

SuccessText(login_as, sender, user) ==
    IF login_as # sender
    THEN "Successfully logged in [" \o login_as \o "] as " \o DisplayName(user)
    ELSE "Successfully logged in as " \o DisplayName(user)

\* if existing_user and existing_user != login_as
MustEvict(existing_user, login_as) ==
    existing_user # None /\ existing_user # login_as

\* background_task.create(login_as.post_login(...)); command_status = None;
\* the success reply
Schedule(t, r) ==
    /\ background_tasks' = background_tasks \cup {<<r.login_as, r.user>>}
    /\ command_status' = [command_status EXCEPT ![r.sender] = NoStatus]
    /\ Becomes(t, Finished(Reply(Did(r, "post_login", r.login_as),
                                 SuccessText(r.login_as, r.sender, r.user))))

\* get_by_tgid answers; without an eviction the handler runs on to the end
\* of _finish_sign_in with no await in between
finish(t, existing) ==
    LET r == task[t]
        login_as == LoginAsOrSender(r.login_as, r.sender)
        r1 == [Did(r, "get_by_tgid", r.user) EXCEPT
                  !.login_as = login_as, !.existing_user = existing]
    IN  /\ t \in DOMAIN task
        /\ r.pc = "finish"
        /\ existing \in (IF BoundTo(r.user) = {} THEN {None} ELSE BoundTo(r.user))
        /\ IF MustEvict(existing, login_as)
           THEN /\ Becomes(t, [r1 EXCEPT !.pc = "finish_logout"])
                /\ UNCHANGED <<command_status, background_tasks>>
           ELSE Schedule(t, r1)
        /\ UNCHANGED <<tgid, Config>>

\* existing_user.log_out() and the notice; a notice that cannot be sent raises
\* out of _finish_sign_in, to the except Exception clause of the calling
\* handler (login_qr has none)
finish_logout(t, delivered) ==
    LET r == task[t]
        r1 == Did(r, "log_out", r.existing_user)
        r2 == [r1 EXCEPT !.outcome = "reply_failed"]
    IN  /\ t \in DOMAIN task
        /\ r.pc = "finish_logout"
        /\ delivered \in BOOLEAN
        /\ tgid' = log_out(tgid, r.existing_user)
        /\ IF delivered
           THEN Becomes(t, [Reply(r1, EvictionNotice(r.existing_user))
                               EXCEPT !.pc = "finish_post"])
           ELSE IF r.cmd = "login_qr"
           THEN Becomes(t, Finished(r2))
           ELSE Becomes(t, Finished(Reply(r2, CallerReply(r.cmd, "Exception"))))
        /\ UNCHANGED <<command_status, background_tasks, Config>>

finish_post(t) ==
    LET r == task[t]
    IN  /\ t \in DOMAIN task
        /\ r.pc = "finish_post"
        /\ Schedule(t, r)
        /\ UNCHANGED <<tgid, Config>>

\* ------------------------------------------------------------ the system
Next ==
    \/ \E t \in Tasks, a \in Accounts, args \in ArgsOf("login"),
          public_enabled \in BOOLEAN : login(t, a, args, public_enabled)
    \/ \E t \in Tasks, a \in Accounts : logout(t, a, <<>>)
    \/ \E t \in Tasks, a \in Accounts, args \in ArgsOf("login_qr") :
          login_qr(t, a, args)
    \/ \E t \in Tasks : qr_loop(t)
    \/ \E t \in Tasks, out \in QrOutcomes : qr_wait(t, out)
    \/ \E t \in Tasks : qr_redact(t)
    \/ \E t \in Tasks, a \in Accounts, args \in ArgsOf("enter_phone_or_token") :
          enter_phone_or_token(t, a, args)
    \/ \E t \in Tasks, out \in {"sent"} \cup RequestErrors : _request_code(t, out)
    \/ \E t \in Tasks, a \in Accounts, args \in ArgsOf("enter_code") :
          enter_code(t, a, args)
    \/ \E t \in Tasks, a \in Accounts, args \in ArgsOf("enter_password"),
          redacted \in BOOLEAN : enter_password(t, a, args, redacted)
    \/ \E t \in Tasks, out \in UNION {SignInOutcomes(c) : c \in Commands} :
          _sign_in(t, out)
    \/ \E t \in Tasks, existing \in Accounts \cup {None} : finish(t, existing)
    \/ \E t \in Tasks, delivered \in BOOLEAN : finish_logout(t, delivered)
    \/ \E t \in Tasks : finish_post(t)
    \/ \E a \in Accounts, user \in Remotes : PostLogin(a, user)

Spec == Init /\ [][Next]_vars
SpecSeq == InitSeq /\ [][Next]_vars

\* =================================================================== claims

\* ----------------------------------------------------------------------- C1
\* C1: in every reachable state, whatever the interleaving of the sign-ins of
\* two accounts with the same Telegram user, that Telegram user is bound to
\* at most one account.
C1_BoundToAtMostOne ==
    \A user \in Remotes : Cardinality(BoundTo(user)) <= 1

\* ----------------------------------------------------------------------- C2
\* the invocation that just returned signed client B in as a Telegram user
\* and delivered all its messages
SignedIn(r) == r.pc = "done" /\ r.user # None /\ r.outcome = "user"

\* C2: when the Telegram user was found bound to account A and the sign-in
\* that succeeded was one of another account B, the finalizer logged A out,
\* sent the notice naming A and scheduled the post-login task that binds the
\* Telegram user to B.
C2_EvictsAndRebinds ==
    (SignedIn(last) /\ last.existing_user \notin {None, last.client})
        => /\ HasCall(last, "log_out", last.existing_user)
           /\ HasCall(last, "reply", EvictionNotice(last.existing_user))
           /\ HasCall(last, "post_login", last.client)
           /\ <<last.client, last.user>> \in background_tasks

\* ----------------------------------------------------------------------- C3
\* C3: after a password was requested during a QR login for another account,
\* enter-password signs in on that account's client and the finalizer runs
\* for that same account: its comparison with the existing binding and its
\* post-login task are those of the account whose client signed in.
C3_FinalizerForActingIdentity ==
    /\ \A t \in DOMAIN task :
          (task[t].cmd = "enter_password"
              /\ task[t].pc \in {"finish_logout", "finish_post"})
          => task[t].login_as = task[t].client
    /\ (last.cmd = "enter_password" /\ SignedIn(last))
          => /\ last.login_as = last.client
             /\ HasCall(last, "post_login", last.client)

\* ----------------------------------------------------------------------- C4
\* the login-qr attempt that just returned ran out of retries
QrTimedOut(r) ==
    r.pc = "done" /\ r.cmd = "login_qr" /\ r.outcome = "TimeoutError"

\* C4 as claimed: a login-qr attempt whose waits all time out creates exactly
\* 4 challenges, ends by editing the message to 'Login timed out', never runs
\* the finalizer, and leaves the invoking account with an empty slot whatever
\* the slot held before.
C4_TimeoutEmptiesSlot ==
    QrTimedOut(last)
        => /\ CountOp(last, "recreate") = 4
           /\ last.calls[Len(last.calls)] = Call("edit", "Login timed out")
           /\ CountOp(last, "get_by_tgid") = 0
           /\ CountOp(last, "post_login") = 0
           /\ command_status[last.sender] = NoStatus

\* C4 as amended: such an attempt creates exactly 4 challenges, ends by
\* editing the message to 'Login timed out' and never runs the finalizer;
\* none of its steps installs or changes a slot.
C4_TimeoutInstallsNothing ==
    [][ /\ QrTimedOut(last')
            => /\ CountOp(last', "recreate") = 4
               /\ last'.calls[Len(last'.calls)] = Call("edit", "Login timed out")
               /\ CountOp(last', "get_by_tgid") = 0
               /\ CountOp(last', "post_login") = 0
               /\ command_status' = command_status
        /\ \A t \in DOMAIN task :
              (/\ task'[t] # task[t]
               /\ task'[t].cmd = "login_qr"
               /\ task'[t].outcome \in {None, "TimeoutError"})
              => command_status' = command_status ]_vars

\* an attempt timed out while the invoking account's slot held a step
C4_TimedOutOverSlot ==
    /\ QrTimedOut(last)
    /\ command_status[last.sender].next = "enter_phone_or_token"

\* ----------------------------------------------------------------------- C5
\* the invocations in flight and the one that just returned
Invocations == {task[t] : t \in DOMAIN task} \cup {last}

\* C5: once the QR challenge has been scanned, the published message has been
\* redacted before the finalizer runs; and it is redacted only after a scan,
\* never after a timeout.
C5_RedactsOnScanOnly ==
    \A r \in Invocations :
        r.cmd = "login_qr"
        => /\ r.user # None => HasCall(r, "redact", "qr")
           /\ HasCall(r, "redact", "qr") => r.user # None

\* ----------------------------------------------------------------------- C6
\* C6: after enter-code was answered 'code expired' or 'code invalid', or a
\* token was answered 'token invalid' or 'token expired', the reply names
\* that cause and the account's slot is empty.
C6_CodeOrTokenErrorClearsSlot ==
    /\ (last.cmd = "enter_code"
            /\ last.outcome \in {"PhoneCodeExpiredError", "PhoneCodeInvalidError"})
          => /\ LastReply(last) = SignInReply("enter_code", last.outcome)
             /\ command_status[last.sender] = NoStatus
    /\ (last.cmd = "enter_phone_or_token"
            /\ last.outcome \in {"AccessTokenInvalidError", "AccessTokenExpiredError"})
          => /\ LastReply(last) \in {"That bot token is not valid.",
                                     "That bot token has expired."}
             /\ command_status[last.sender] = NoStatus

\* ----------------------------------------------------------------------- C7
UnhandledTexts ==
    {"Unhandled exception while requesting code. Check console for more details.",
     "Unhandled exception while sending auth token. Check console for more details.",
     "Unhandled exception while sending code. Check console for more details.",
     "Unhandled exception while sending password. Check console for more details."}

\* C7: after a step met a failure that is none of the classified provider
\* errors, the reply is the generic 'Unhandled exception' one and the
\* invoking account's slot is empty.
C7_UnclassifiedClearsSlot ==
    (last.pc = "done" /\ last.outcome = "Exception")
        => /\ LastReply(last) \in UnhandledTexts
           /\ command_status[last.sender] = NoStatus

\* ----------------------------------------------------------------------- C8
WrongPassword(r) ==
    r.pc = "done" /\ r.cmd = "enter_password" /\ r.outcome = "PasswordHashInvalidError"

\* C8: a password submission the provider answers 'password invalid' leaves
\* every continuation slot as it was (login_as metadata included), replies
\* 'Incorrect password.', and runs no part of the finalizer: no lookup, no
\* post-login, no binding change.
C8_WrongPasswordKeepsSlot ==
    [][ WrongPassword(last')
            => /\ command_status' = command_status
               /\ LastReply(last') = "Incorrect password."
               /\ CountOp(last', "get_by_tgid") = 0
               /\ CountOp(last', "log_out") = 0
               /\ CountOp(last', "post_login") = 0
               /\ background_tasks' = background_tasks
               /\ tgid' = tgid ]_vars

\* a wrong password was just refused while the slot still asks for the
\* password of a different acting identity
C8_WrongPasswordRetryOpen ==
    /\ WrongPassword(last)
    /\ command_status[last.sender] = PasswordStatus("bob")
    /\ last.sender = "alice"

\* ----------------------------------------------------------------------- C9
PhoneSubmitted(r) ==
    r.pc = "done" /\ r.cmd = "enter_phone_or_token" /\ HasCall(r, "sign_in", "phone")

\* C9: when a phone-number submission returns, the account's slot is
\* {next: enter_code} exactly when the code request succeeded, and is empty
\* after every failure of the request.
C9_SlotIffCodeSent ==
    PhoneSubmitted(last)
        => /\ (command_status[last.sender] = Status("enter_code", "Login", None))
                  <=> (last.outcome = "sent")
           /\ last.outcome # "sent" => command_status[last.sender] = NoStatus

\* a phone-number submission just failed and left the slot empty
C9_RequestFailed ==
    /\ PhoneSubmitted(last)
    /\ last.outcome \in RequestErrors
    /\ command_status[last.sender] = NoStatus

\* ---------------------------------------------------------------------- C10
\* C10: along login -> phone number (code sent) -> code (password needed) ->
\* password (accepted) the account's slot is enter_phone_or_token, then
\* enter_code, then enter_password; the code step replies with the
\* two-factor prompt; the password step replies 'Successfully logged in as
\* @<handle>' and leaves the slot empty.
C10_FullCredentialWalk ==
    /\ \A a \in Accounts :
          /\ flow[a] = Reached("login")
                => command_status[a] = Status("enter_phone_or_token", "Login", None)
          /\ flow[a] = Reached("phone")
                => command_status[a] = Status("enter_code", "Login", None)
          /\ flow[a] = Reached("code")
                => command_status[a].next = "enter_password"
          /\ flow[a] = Reached("password")
                => command_status[a] = NoStatus
    /\ (last.cmd = "enter_code" /\ flow[last.invoker] = Reached("code"))
          => LastReply(last) = TwoFactorText
    /\ (last.cmd = "enter_password" /\ flow[last.invoker] = Reached("password"))
          => LastReply(last) = "Successfully logged in as @" \o Username(last.user)

\* the password step of the walk just returned
C10_WalkCompleted ==
    /\ last.cmd = "enter_password"
    /\ flow[last.invoker] = Reached("password")
    /\ Username(last.user) # ""

\* ---------------------------------------------------------------------- C11
QrPasswordNeeded(r) ==
    r.pc = "done" /\ r.cmd = "login_qr" /\ r.outcome = "SessionPasswordNeededError"

\* C11: when a QR wait is answered 'password required', login-qr returns
\* with the invoker's slot set to enter_password, its login_as naming the
\* acting identity (none when that is the invoker); the two-factor prompt is
\* the last thing it does: one challenge per wait so far and no further one,
\* no finalizer step and no 'Login timed out' edit.
C11_QrPasswordNeededInstallsSlot ==
    QrPasswordNeeded(last)
        => /\ last.sender = last.invoker
           /\ command_status[last.invoker] =
                 Status("enter_password", "Login (password entry)",
                        IF last.login_as = last.invoker THEN None ELSE last.login_as)
           /\ last.calls[Len(last.calls)] = Call("reply", TwoFactorText)
           /\ CountOp(last, "recreate") = (4 - last.retries) + 1
           /\ CountOp(last, "get_by_tgid") = 0
           /\ CountOp(last, "log_out") = 0
           /\ CountOp(last, "post_login") = 0
           /\ ~HasCall(last, "edit", "Login timed out")

\* an admin's login-qr for another account was answered 'password required'
\* on the second wait
C11_QrPasswordNeededForOther ==
    /\ QrPasswordNeeded(last)
    /\ last.invoker = "alice" /\ last.login_as = "bob"
    /\ last.retries = 3
    /\ command_status["alice"].login_as = "bob"

\* ---------------------------------------------------------------------- C12
ContinuationTargets == {"enter_phone_or_token", "enter_code", "enter_password"}

UsageOf(cmd) ==
    CASE cmd = "enter_phone_or_token" -> "Usage: enter-phone-or-token <phone-or-token>"
      [] cmd = "enter_code" -> "Usage: enter-code <code>"
      [] OTHER -> "Usage: enter-password <password>"

\* C12 as stated (the effect on the slot aside): with allow_matrix_login
\* false the three continuation targets answer every argument list, the
\* empty one included, with the login-disabled rejection and without a
\* provider call; the usage message is seen only with the flag true.
C12_DisabledCheckedFirst ==
    (last.pc = "done" /\ last.cmd \in ContinuationTargets)
        => /\ ~allow_matrix_login
                => LastReply(last) = DisabledText /\ CountOp(last, "sign_in") = 0
           /\ LastReply(last) = UsageOf(last.cmd) => allow_matrix_login

\* C12, amended: the three continuation targets answer an empty argument
\* list with the usage message whatever the flag; with allow_matrix_login
\* false they answer every non-empty argument list with the login-disabled
\* rejection; in both cases they return at once, with no provider call and
\* with every slot and binding as it was.
C12_UsageThenDisabled ==
    [][ /\ \A t \in DOMAIN task :
              (task'[t].cmd \in ContinuationTargets /\ Active(t)')
                  => allow_matrix_login /\ task'[t].nargs > 0
        /\ (last'.pc = "done" /\ last'.cmd \in ContinuationTargets
                /\ (last'.nargs = 0 \/ ~allow_matrix_login))
              => /\ LastReply(last') =
                       IF last'.nargs = 0 THEN UsageOf(last'.cmd) ELSE DisabledText
                 /\ Len(last'.calls) = 1
                 /\ command_status' = command_status
                 /\ tgid' = tgid
                 /\ background_tasks' = background_tasks ]_vars

\* with the flag false, a password was sent while the slot asks for one
C12_DisabledOverSlot ==
    /\ ~allow_matrix_login
    /\ last.pc = "done" /\ last.cmd = "enter_password" /\ last.nargs > 0
    /\ LastReply(last) = DisabledText
    /\ command_status[last.sender].next = "enter_password"

\* ---------------------------------------------------------------------- C13
EnterCodeNoArgs(r) == r.pc = "done" /\ r.cmd = "enter_code" /\ r.nargs = 0

\* C13: enter-code with no argument returns at once; its only act is the
\* usage reply, and it leaves every slot, every binding and the scheduled
\* post-login tasks as they were, whatever the slot and the configuration.
C13_EnterCodeNoArgsIsUsage ==
    [][ /\ \A t \in DOMAIN task :
              (task'[t].cmd = "enter_code" /\ Active(t)') => task'[t].nargs > 0
        /\ EnterCodeNoArgs(last')
              => /\ last'.calls = <<Call("reply", "Usage: enter-code <code>")>>
                 /\ command_status' = command_status
                 /\ tgid' = tgid
                 /\ background_tasks' = background_tasks ]_vars

\* enter-code came without a code while the slot was waiting for the code
C13_NoArgsWhileCodeAwaited ==
    /\ EnterCodeNoArgs(last)
    /\ command_status[last.sender].next = "enter_code"

\* ---------------------------------------------------------------------- C14
QrUnsupportedText ==
    "This bridge instance does not support logging in with a QR code."

\* C14: without the QR rendering capability every login-qr, of an admin or
\* not, with or without an override argument, returns at once; its only act
\* is the 'does not support logging in with a QR code' reply: no challenge,
\* no published message, no session, and every slot, binding and scheduled
\* post-login task as it was.
C14_QrUnsupportedChangesNothing ==
    [][ /\ \A t \in DOMAIN task :
              (task'[t].cmd = "login_qr" /\ Active(t)') => qrcode
        /\ (last'.pc = "done" /\ last'.cmd = "login_qr" /\ ~qrcode)
              => /\ last'.calls = <<Call("reply", QrUnsupportedText)>>
                 /\ last'.client = None
                 /\ command_status' = command_status
                 /\ tgid' = tgid
                 /\ background_tasks' = background_tasks ]_vars

\* an admin's login-qr with an override was refused while a slot was installed
C14_QrUnsupportedOverSlot ==
    /\ ~qrcode
    /\ last.pc = "done" /\ last.cmd = "login_qr"
    /\ last.invoker \in Admins /\ last.nargs > 0
    /\ \E a \in Accounts : command_status[a] # NoStatus

\* ---------------------------------------------------------------------- C15
\* a login or login-qr of an account that is not an admin
OfNonAdmin(r) ==
    /\ r.cmd \in {"login", "login_qr"}
    /\ r.invoker \in Accounts \ Admins

OverrideTexts ==
    {"Usage: login [override user ID]",
     "Click here to log in as override",
     "Logging in as another user inside Matrix is not currently possible."}
    \cup {"Admin override: logging in as " \o b \o " instead of " \o a :
             a, b \in Accounts}

\* the invocation that a step with budget' < budget takes in
TakenIn ==
    IF last'.pc = "done" THEN last'
    ELSE task'[CHOOSE t \in DOMAIN task : ~Active(t) /\ Active(t)']

\* C15: a login or login-qr of a non-admin, with or without an argument,
\* always acts for the invoker: evt.sender stays the invoker, the acting
\* identity and the client used are the invoker's, no reply is one of the
\* override or usage replies, and the step that takes the command in changes
\* no slot but the invoker's, no binding and no scheduled task.
C15_NonAdminOverrideIgnored ==
    [][ /\ \A r \in {task'[t] : t \in DOMAIN task} \cup {last'} :
              OfNonAdmin(r)
                  => /\ r.sender = r.invoker
                     /\ r.login_as \in {None, r.invoker}
                     /\ r.client \in {None, r.invoker}
                     /\ \A i \in 1..Len(r.calls) :
                           r.calls[i].op = "reply" => r.calls[i].arg \notin OverrideTexts
        /\ (budget' < budget /\ OfNonAdmin(TakenIn))
              => /\ \A b \in Accounts \ {TakenIn.invoker} :
                       command_status'[b] = command_status[b]
                 /\ tgid' = tgid
                 /\ background_tasks' = background_tasks ]_vars

\* a non-admin's login-qr that named another account is polling for itself
C15_NonAdminQrWithArgument ==
    \E t \in DOMAIN task :
        /\ OfNonAdmin(task[t]) /\ task[t].cmd = "login_qr"
        /\ task[t].nargs > 0
        /\ task[t].pc = "qr_wait"
        /\ task[t].login_as = task[t].invoker

\* ---------------------------------------------------------------------- C16
\* the finalizer of the invocation that just returned logged an account out
Evicted(r) == r.pc = "done" /\ r.cmd # "logout" /\ CountOp(r, "log_out") > 0

\* C16: an invocation whose finalizer logged the previously bound account
\* out has, whether or not the eviction notice could be sent, scheduled the
\* post-login task of the acting identity, cleared the slot and produced the
\* success reply.
C16_NoticeFailureStillFinalizes ==
    Evicted(last)
        => /\ HasCall(last, "post_login", last.login_as)
           /\ <<last.login_as, last.user>> \in background_tasks
           /\ command_status[last.sender] = NoStatus
           /\ LastReply(last) = SuccessText(last.login_as, last.sender, last.user)

\* ---------------------------------------------------------------------- C17
\* what a login-qr attempt has published in the room, in order
Publications(r) == SelectSeq(r.calls, LAMBDA c : c.op \in {"send", "edit"})

\* C17: of the publications of one login-qr attempt the first is a new
\* message and every later one, the recreated challenges and the timeout
\* notice alike, is an edit; so at most one new message is sent.
C17_OneMessageThenEdits ==
    \A r \in Invocations :
        r.cmd = "login_qr"
        => /\ \A i \in 1..Len(Publications(r)) :
                 Publications(r)[i].op = IF i = 1 THEN "send" ELSE "edit"
           /\ CountOp(r, "send") <= 1
           /\ (r.qr_event_id = None) <=> (Publications(r) = <<>>)

\* four challenges and the timeout notice were published
C17_FivePublications ==
    /\ last.cmd = "login_qr"
    /\ Len(Publications(last)) = 5
    /\ Publications(last)[5] = Call("edit", "Login timed out")

\* ---------------------------------------------------------------------- C18
\* the position of the first call of r with this op (0: there is none)
OpIndex(r, op) ==
    IF CountOp(r, op) = 0 THEN 0
    ELSE CHOOSE i \in 1..Len(r.calls) :
            /\ r.calls[i].op = op
            /\ \A j \in 1..(i - 1) : r.calls[j].op # op

\* C18: in an invocation that signed an acting identity in and returned, the
\* lookup came first; an account found bound that is not the acting identity
\* was logged out after the lookup and before the post-login task was
\* scheduled; scheduling was followed by the clearing of the slot and the
\* success reply, which is the last act and finds the task still pending.
C18_FinalizerOrder ==
    SignedIn(last)
        => /\ CountOp(last, "get_by_tgid") = 1
           /\ CountOp(last, "post_login") = 1
           /\ OpIndex(last, "get_by_tgid") < OpIndex(last, "post_login")
           /\ last.existing_user \notin {None, last.client}
                 => /\ HasCall(last, "log_out", last.existing_user)
                    /\ OpIndex(last, "get_by_tgid") < OpIndex(last, "log_out")
                    /\ OpIndex(last, "log_out") < OpIndex(last, "post_login")
           /\ OpIndex(last, "post_login") = Len(last.calls) - 1
           /\ last.calls[Len(last.calls)].op = "reply"
           /\ command_status[last.sender] = NoStatus
           /\ \E a \in Accounts : <<a, last.user>> \in background_tasks

\* ---------------------------------------------------------------------- C19
\* C19: an enter-password invocation that called the provider attempted the
\* redaction of the password message before that call; and one whose
\* redaction failed while a slot was installed has gone on to call the
\* provider all the same.
C19_ScrubThenSubmit ==
    /\ \A r \in Invocations :
          (r.cmd = "enter_password" /\ CountOp(r, "sign_in") > 0)
              => /\ CountOp(r, "redact") + CountOp(r, "redact_failed") = 1
                 /\ r.calls[1].op \in {"redact", "redact_failed"}
    /\ (last.pc = "done" /\ last.cmd = "enter_password"
            /\ CountOp(last, "redact_failed") > 0
            /\ command_status[last.sender] # NoStatus)
          => CountOp(last, "sign_in") > 0

\* ---------------------------------------------------------------------- C20
\* the provider returned a Telegram user to this invocation
GotUser(r) == r.user \in Remotes /\ r.outcome \in {"user", "reply_failed"}

\* C20: a post-login task is added only by a step of an invocation to which
\* the provider returned a Telegram user, for that user and once; an account
\* loses its binding only by its own logout or by the eviction of such an
\* invocation; and an invocation without a returned user (an error, a
\* timeout, 'password required', a usage or a disabled reply) has neither
\* scheduled a post-login task nor logged anyone else out.
C20_PostLoginOnlyAfterUser ==
    [][ /\ \A p \in background_tasks' \ background_tasks :
              \E t \in DOMAIN task :
                  /\ GotUser(task[t]) /\ task[t].user = p[2]
                  /\ task[t].pc \in {"finish", "finish_post"}
                  /\ task'[t] = IdleTask /\ last'.pc = "done"
                  /\ last'.user = p[2] /\ last'.login_as = p[1]
                  /\ CountOp(task[t], "post_login") = 0
                  /\ HasCall(last', "post_login", p[1])
        /\ \A a \in Accounts :
              (tgid[a] # None /\ tgid'[a] = None)
                  => \/ last'.cmd = "logout" /\ last'.sender = a
                     \/ \E t \in DOMAIN task :
                           /\ GotUser(task[t]) /\ task[t].pc = "finish_logout"
                           /\ task[t].existing_user = a
        /\ \A r \in {task'[t] : t \in DOMAIN task} \cup {last'} :
              /\ CountOp(r, "post_login") <= 1
              /\ ~GotUser(r)
                    => /\ CountOp(r, "post_login") = 0
                       /\ r.cmd # "logout" => CountOp(r, "log_out") = 0 ]_vars

\* a scanned QR challenge has just led to the scheduling of the post-login
\* task, after three waits that timed out
C20_ScheduledAfterScan ==
    /\ last.pc = "done" /\ last.cmd = "login_qr" /\ GotUser(last)
    /\ last.retries = 1
    /\ CountOp(last, "post_login") = 1
    /\ <<last.login_as, last.user>> \in background_tasks
====
